---- MODULE Spec2Model ----
(***************************************************************************)
(* Matchmaking core of a multi-process game-room server                    *)
(* (src/src/MatchMaker.ts, src/src/transport/WebSocketTransport.ts).       *)
(*                                                                         *)
(* Every action is the code that runs between two suspension points        *)
(* (awaits, timers, message deliveries) of one handler, together with the  *)
(* effect of the presence / registry operation that ends it.               *)
(***************************************************************************)
EXTENDS Integers, FiniteSets, Sequences, TLC

\* ---------------------------------------------------------------- bounds
MaxRooms == 2
MaxSessions == 2
MaxClients == 1
MaxMessages == 2
MaxPings == 3

\* ------------------------------------------------------ program constants
MaxRetries == 5
pingCountMax == 2

Procs == {"A", "B"}
Calls == {"c1", "c2", "c3"}
TwoCalls == {"c1", "c2"}
Types == {"chat", "duo"}
Names == {"chat"}
Modes == {"m1"}
RoomIds == 1 .. MaxRooms
Sessions == 1 .. MaxSessions
Sockets == {"s1", "s2"}
NoRoom == 0
NoSession == 0
NoProc == "-"

VARIABLES
  handlers,    \* MatchMaker.handlers, per process: the registered room types
  localRooms,  \* MatchMaker.localRooms, per process: the roomIds it holds
  shutdown,    \* per process: isGracefullyShuttingDown and the promise it returned
  alive,       \* per process: FALSE once the process has crashed
  registry,    \* driver: the roomIds whose listing has been saved and not removed
  listing,     \* driver: the listing instance of each room (visible iff in registry)
  room,        \* Room handle of each roomId: internal state and reserved seats
  rset,        \* presence: per room type, the set of roomIds (sadd / srem)
  counter,     \* presence: per room type, the admission counter "<name>:c"
  channels,    \* presence: the room channels "$<roomId>" that are subscribed
  call,        \* the matchmaking calls in flight and their position
  requests,    \* presence: messages published on a room channel, not yet delivered
  replies,     \* presence: messages published on a reply channel, not yet delivered
  replySubs,   \* presence: the reply channels "<roomId>:<requestId>" that are subscribed
  cleanup,     \* per process: cleanupStaleRooms' position and the rooms it still asks
  sockets,     \* transport: per client socket, its matchmake route and its traffic
  subscribers  \* presence: per room channel, the number of handlers subscribed

vars == << handlers, localRooms, shutdown, alive, registry, listing, room,
           rset, counter, channels, call, requests, replies, replySubs,
           cleanup, sockets, subscribers >>

\* ------------------------------------------------------------- helpers
Min(S) == CHOOSE x \in S : \A y \in S : x <= y

NoListing == [name |-> "-", processId |-> NoProc, locked |-> FALSE, mode |-> "-"]
NoRoomHandle == [state |-> "none", seats |-> {}]
\* how the promise of a direct remoteRoomCall settled: resolved or rejected,
\* with a pair [processId, data] or with an Error object carrying a message
NoOutcome == [settled |-> "-", form |-> "-", proc |-> NoProc, data |-> "-"]

IdleCall == [op |-> "idle", proc |-> NoProc, name |-> "-", mode |-> "-",
             pc |-> "idle", room |-> NoRoom, locked |-> FALSE, sid |-> NoSession,
             arg |-> NoSession, method |-> "-", path |-> "-", value |-> FALSE,
             retries |-> 0, hit |-> NoRoom, misses |-> 0, made |-> {},
             late |-> FALSE, result |-> "none", outcome |-> NoOutcome]

\* the value of a property that was never assigned, and of the NaN that
\* arithmetic on it gives
Undefined == -1

\* a client socket the transport has not seen yet (pingCount is
\* client.pingCount; unanswered is the client's side of it, the pings it has
\* received since its last pong)
NoSocket == [state |-> "none", proc |-> NoProc, method |-> "-", name |-> "-",
             received |-> 0, invoked |-> {}, answered |-> {}, sent |-> 0,
             pingCount |-> Undefined, unanswered |-> 0]

IdleCleanup == [pc |-> "idle", name |-> "-", rooms |-> {}]

\* generateId(): an id nobody holds
FreeRoomIds == { r \in RoomIds : room[r].state = "none" }
UsedSessions == UNION { room[r].seats : r \in RoomIds }
                  \cup { call[c].sid : c \in Calls } \cup { call[c].arg : c \in Calls }
                  \cup { m.arg : m \in requests }
FreeSessions == Sessions \ UsedSessions

\* the owner of a room is the process that built its listing instance
Owner(r) == listing[r].processId

\* getRoomChannel / reply channel "<roomId>:<requestId>": a remote call is
\* named by who waits for it and, a requestId being fresh for every call, by
\* the attempt that issued it: <<"call", c, r, attempt>> or <<"clean", p, r>>
CallRid(c, r) == << "call", c, r, call[c].retries >>
CleanRid(p, r) == << "clean", p, r >>

Init ==
  /\ handlers = [p \in Procs |-> {}]
  /\ localRooms = [p \in Procs |-> {}]
  /\ shutdown = [p \in Procs |-> [flag |-> FALSE, waiting |-> {}]]
  /\ alive = [p \in Procs |-> TRUE]
  /\ registry = {}
  /\ listing = [r \in RoomIds |-> NoListing]
  /\ room = [r \in RoomIds |-> NoRoomHandle]
  /\ rset = [n \in Types |-> {}]
  /\ counter = [n \in Types |-> 0]
  /\ channels = {}
  /\ call = [c \in Calls |-> IdleCall]
  /\ requests = {}
  /\ replies = {}
  /\ replySubs = {}
  /\ cleanup = [p \in Procs |-> IdleCleanup]
  /\ sockets = [k \in Sockets |-> NoSocket]
  /\ subscribers = [r \in RoomIds |-> 0]

\* ------------------------------------------------ Room (the room handle)
\* Room.maxClients, set by the room class of the type: a "chat" room holds
\* MaxClients clients, a "duo" room one more
Capacity(n) == IF n = "duo" THEN MaxClients + 1 ELSE MaxClients
maxClients(r) == Capacity(listing[r].name)

\* Room.hasReachedMaxClients: reserved seats count as clients
hasReachedMaxClients(r, seats) == Cardinality(seats) >= maxClients(r)

\* what room[method] answers: _reserveSeat refuses a full room,
\* hasReservedSeat looks the session up, roomId is a property (truthy)
MethodValue(r, method, arg) ==
  CASE method = "_reserveSeat" -> ~hasReachedMaxClients(r, room[r].seats)
    [] method = "hasReservedSeat" -> arg \in room[r].seats
    [] OTHER -> TRUE

\* the lock / unlock / dispose listeners are attached from createRoom's
\* room.on(...) until the room has been disposed (removeAllListeners)
Listening(r) == room[r].state \in {"created", "disconnecting"}

\* createRoom has returned the room's listing ('create' has been emitted):
\* from then on the room emits its lifecycle events
Created(r) ==
  /\ room[r].state \in {"created", "disconnecting"}
  /\ \A c \in DOMAIN call :
       call[c].room = r => call[c].pc \notin {"onCreate", "refs", "subscribed", "saved"}

\* ------------------------------------------- MatchMaker: room references
\* clearRoomReferences: presence.srem(room.roomName, room.roomId)
clearRoomReferences(set, n, r) == [set EXCEPT ![n] = @ \ {r}]

\* createRoomReferences, the set part: presence.sadd(room.roomName, room.roomId)
createRoomReferences(set, n, r) == [set EXCEPT ![n] = @ \cup {r}]

\* lockRoom that leaves the set member in place
lockRoomKeepsMember(set, n, r) == set

\* lockRoom, run by the room's 'lock' event
lockRoom(set, n, r) == clearRoomReferences(set, n, r)

\* Room.lock(): emits 'lock' (lockRoom when the listeners are attached) and
\* marks the listing locked
RoomLocks(r) ==
  /\ listing' = [listing EXCEPT ![r].locked = TRUE]
  /\ rset' = IF Listening(r) THEN lockRoom(rset, listing[r].name, r) ELSE rset

\* the state change of room[method].apply(room, args) on the owning process:
\* _reserveSeat records the seat and locks the room once it is full
MethodEffect(r, method, arg) ==
  IF method = "_reserveSeat" /\ ~hasReachedMaxClients(r, room[r].seats)
  THEN /\ room' = [room EXCEPT ![r].seats = @ \cup {arg}]
       /\ IF hasReachedMaxClients(r, room[r].seats \cup {arg}) /\ ~listing[r].locked
          THEN RoomLocks(r)
          ELSE UNCHANGED << listing, rset >>
  ELSE UNCHANGED << room, listing, rset >>

\* presence.publish on a room channel: kept for delivery when subscribed
publish(msgs, r, m) == IF r \in channels THEN msgs \cup {m} ELSE msgs

\* ------------------------------------------------------- remoteRoomCall
\* remoteRoomCall(roomId, method, args) issued by call c, whose record is
\* `base` but for the fields of the call: the local path invokes the method,
\* the other subscribes "<roomId>:<requestId>" and publishes on "$<roomId>"
remoteRoomCall(c, base, r, method, arg) ==
  IF r \in localRooms[base.proc]
  THEN /\ call' = [call EXCEPT ![c] = [base EXCEPT !.pc = "localAwait",
                      !.path = "local", !.method = method, !.late = FALSE,
                      !.value = MethodValue(r, method, arg)]]
       /\ MethodEffect(r, method, arg)
       /\ UNCHANGED << requests, replySubs >>
  ELSE /\ call' = [call EXCEPT ![c] = [base EXCEPT !.pc = "awaitReply",
                      !.path = "pubsub", !.method = method, !.late = FALSE]]
       /\ replySubs' = replySubs \cup {CallRid(c, r)}
       /\ requests' = publish(requests, r,
                        [room |-> r, method |-> method, rid |-> CallRid(c, r),
                         arg |-> arg])
       /\ UNCHANGED << room, listing, rset >>

\* reserveSeatFor(room, options): a fresh sessionId, then the remote call
reserveSeatFor(c, base, r) ==
  /\ FreeSessions # {}
  /\ LET sid == Min(FreeSessions)
     IN remoteRoomCall(c, [base EXCEPT !.sid = sid, !.room = r], r,
                       "_reserveSeat", sid)

\* --------------------------------------------------------------- retry
\* a retry list that lets every error of joinOrCreate through
RetriableAnyError(op, err) == op = "joinOrCreate"

\* the errorWhiteList joinOrCreate hands to retry: [SeatReservationError]
Retriable(op, err) == op = "joinOrCreate" /\ err = "SeatReservationError"

\* retry(cb, maxRetries, errorWhiteList) of Utils, as joinOrCreate uses it:
\* a listed error is retried while retries < maxRetries, any other error and
\* the last listed one reject the call
retry(cr, err) ==
  IF Retriable(cr.op, err) /\ cr.retries < MaxRetries
  THEN [cr EXCEPT !.pc = "retryWait", !.retries = @ + 1, !.result = err,
                  !.sid = NoSession, !.room = NoRoom]
  ELSE [cr EXCEPT !.pc = "done", !.result = err, !.sid = NoSession]

\* the continuation of a settled remoteRoomCall: outcome is TRUE / FALSE (the
\* value replied), "timeout" or "error"
Settled(cr, outcome) ==
  CASE outcome = "timeout" -> retry(cr, "RemoteCallTimeout")
    [] outcome = "error" -> retry(cr, "RemoteCallError")
    [] cr.method = "hasReservedSeat" ->
         IF outcome = "true"
         THEN [cr EXCEPT !.pc = "done", !.result = "seat", !.sid = cr.arg]
         ELSE retry(cr, "ERR_MATCHMAKE_EXPIRED")
    [] OTHER ->
         IF outcome = "true"
         THEN [cr EXCEPT !.pc = "done", !.result = "seat"]
         ELSE retry(cr, "SeatReservationError")

Truth(b) == IF b THEN "true" ELSE "false"

\* ---------------------------------------------------- awaitRoomAvailable
Running(c) == call[c].pc # "idle" /\ alive[call[c].proc]

\* presence.incr(concurrencyKey), then the timer of the admission gate
awaitRoomAvailable(c, base) ==
  /\ counter' = [counter EXCEPT ![base.name] = @ + 1]
  /\ call' = [call EXCEPT ![c] = [base EXCEPT !.pc = "gate"]]

\* joinOrCreate(roomName, options): the first attempt enters the gate
joinOrCreate(c, p, n, m) ==
  /\ call[c].pc = "idle" /\ alive[p]
  /\ awaitRoomAvailable(c, [IdleCall EXCEPT !.op = "joinOrCreate", !.proc = p,
                                           !.name = n, !.mode = m])
  /\ UNCHANGED << handlers, sockets, localRooms, shutdown, alive, registry, listing, room,
                  rset, channels, subscribers, requests, replies, replySubs, cleanup >>

\* join(roomName, options): the attempt enters the gate; retry is handed
\* neither a limit nor a white list
join(c, p, n, m) ==
  /\ call[c].pc = "idle" /\ alive[p]
  /\ awaitRoomAvailable(c, [IdleCall EXCEPT !.op = "join", !.proc = p,
                                           !.name = n, !.mode = m])
  /\ UNCHANGED << handlers, sockets, localRooms, shutdown, alive, registry, listing, room,
                  rset, channels, subscribers, requests, replies, replySubs, cleanup >>

\* retry's timer: the next attempt enters the gate
retryAttempt(c) ==
  /\ Running(c) /\ call[c].pc = "retryWait"
  /\ awaitRoomAvailable(c, call[c])
  /\ UNCHANGED << handlers, sockets, localRooms, shutdown, alive, registry, listing, room,
                  rset, channels, subscribers, requests, replies, replySubs, cleanup >>

\* a findOne that does not ask for locked: false
MatchesLockedToo(n, m) ==
  { r \in registry : listing[r].name = n /\ listing[r].mode = m }

\* driver.findOne({locked: false, name, ...filter}): the listings it may return
Matches(n, m) ==
  { r \in registry : listing[r].name = n /\ ~listing[r].locked /\ listing[r].mode = m }

\* queryRoom's callback, run by the gate's timer: no handler throws (and the
\* finally clause decrements), else findOne reads the registry
queryRoom(c) ==
  /\ Running(c) /\ call[c].pc = "gate"
  /\ LET cr == call[c]
     IN IF cr.name \notin handlers[cr.proc]
        THEN /\ counter' = [counter EXCEPT ![cr.name] = @ - 1]
             /\ call' = [call EXCEPT ![c] = retry(cr, "ERR_MATCHMAKE_NO_HANDLER")]
        ELSE /\ \E r \in (IF Matches(cr.name, cr.mode) = {} THEN {NoRoom}
                                                         ELSE Matches(cr.name, cr.mode)) :
                  call' = [call EXCEPT ![c] = [cr EXCEPT !.pc = "queried", !.room = r,
                             !.hit = r,
                             !.misses = IF r = NoRoom THEN @ + 1 ELSE @,
                             !.locked = (r # NoRoom /\ listing[r].locked)]]
             /\ UNCHANGED counter
  /\ UNCHANGED << handlers, sockets, localRooms, shutdown, alive, registry, listing, room,
                  rset, channels, subscribers, requests, replies, replySubs, cleanup >>

\* ------------------------------------------------------------ createRoom
\* createInstance that stamps a fixed process id instead of this.processId
createInstanceFixedProc(n, p, m) ==
  [name |-> n, processId |-> "A", locked |-> FALSE, mode |-> m]

\* driver.createInstance({name, processId, ...filter}): rooms start unlocked
createInstance(n, p, m) ==
  [name |-> n, processId |-> p, locked |-> FALSE, mode |-> m]

\* createRoom up to `await room.onCreate(...)`: a fresh roomId and the listing
\* instance of driver.createInstance (not saved yet)
createRoom(c, base) ==
  /\ FreeRoomIds # {}
  /\ LET r == Min(FreeRoomIds)
     IN /\ room' = [room EXCEPT ![r] = [state |-> "creating", seats |-> {}]]
        /\ listing' = [listing EXCEPT ![r] =
                         createInstance(base.name, base.proc, base.mode)]
        /\ call' = [call EXCEPT ![c] = [base EXCEPT !.pc = "onCreate", !.room = r]]

\* a joinOrCreate that creates a room whatever the query returned
queryReturnsAlwaysCreates(c) ==
  /\ Running(c) /\ call[c].pc = "queried"
  /\ counter' = [counter EXCEPT ![call[c].name] = @ - 1]
  /\ createRoom(c, call[c])
  /\ UNCHANGED << localRooms, registry, channels, subscribers, rset, requests, replySubs >>
  /\ UNCHANGED << handlers, sockets, shutdown, alive, replies, cleanup >>

\* the query has returned: the finally clause decrements the counter, and
\* joinOrCreate goes on to reserve a seat in the room found or to create one;
\* join reserves a seat in the room found or throws INVALID_CRITERIA
queryReturns(c) ==
  /\ Running(c) /\ call[c].pc = "queried"
  /\ counter' = [counter EXCEPT ![call[c].name] = @ - 1]
  /\ IF call[c].room # NoRoom
     THEN /\ reserveSeatFor(c, call[c], call[c].room)
          /\ UNCHANGED << localRooms, registry, channels, subscribers >>
     ELSE IF call[c].op = "join"
     THEN /\ call' = [call EXCEPT ![c] =
                       retry(call[c], "ERR_MATCHMAKE_INVALID_CRITERIA")]
          /\ UNCHANGED << localRooms, registry, channels, subscribers, rset, requests, replySubs,
                          room, listing >>
     ELSE /\ createRoom(c, call[c])
          /\ UNCHANGED << localRooms, registry, channels, subscribers, rset, requests, replySubs >>
  /\ UNCHANGED << handlers, sockets, shutdown, alive, replies, cleanup >>

\* room.onCreate returned: CREATED, the listeners attached, and
\* createRoomReferences stores the handle and calls presence.sadd
onCreateReturns(c) ==
  /\ Running(c) /\ call[c].pc = "onCreate"
  /\ LET r == call[c].room
         p == call[c].proc
     IN /\ room' = [room EXCEPT ![r].state = "created"]
        /\ localRooms' = [localRooms EXCEPT ![p] = @ \cup {r}]
        /\ rset' = createRoomReferences(rset, call[c].name, r)
        /\ call' = [call EXCEPT ![c].pc = "refs", ![c].made = @ \cup {r}]
  /\ UNCHANGED << handlers, sockets, shutdown, alive, registry, listing, counter, channels, subscribers,
                  requests, replies, replySubs, cleanup >>

\* a createRoom that has added the roomId to the set before onCreate throws
onCreateThrowsAfterSadd(c) ==
  /\ Running(c) /\ call[c].pc = "onCreate"
  /\ LET r == call[c].room
     IN /\ room' = [room EXCEPT ![r] = NoRoomHandle]
        /\ listing' = [listing EXCEPT ![r] = NoListing]
        /\ rset' = createRoomReferences(rset, call[c].name, r)
        /\ call' = [call EXCEPT ![c] = retry([call[c] EXCEPT !.room = NoRoom],
                                             "ERR_MATCHMAKE_UNHANDLED")]
  /\ UNCHANGED << handlers, sockets, localRooms, shutdown, alive, registry, counter,
                  channels, subscribers, requests, replies, replySubs, cleanup >>

\* room.onCreate threw: MatchMakeError(ERR_MATCHMAKE_UNHANDLED), the room and
\* its unsaved listing instance are dropped
onCreateThrows(c) ==
  /\ Running(c) /\ call[c].pc = "onCreate"
  /\ LET r == call[c].room
     IN /\ room' = [room EXCEPT ![r] = NoRoomHandle]
        /\ listing' = [listing EXCEPT ![r] = NoListing]
        /\ call' = [call EXCEPT ![c] = retry([call[c] EXCEPT !.room = NoRoom],
                                             "ERR_MATCHMAKE_UNHANDLED")]
  /\ UNCHANGED << handlers, sockets, localRooms, shutdown, alive, registry, rset, counter,
                  channels, subscribers, requests, replies, replySubs, cleanup >>

\* a createRoomReferences that goes on without subscribing "$<roomId>"
subscribeRoomSkipped(c) ==
  /\ Running(c) /\ call[c].pc = "refs"
  /\ call' = [call EXCEPT ![c].pc = "subscribed"]
  /\ UNCHANGED << handlers, sockets, localRooms, shutdown, alive, registry, listing, room,
                  rset, counter, channels, subscribers, requests, replies, replySubs,
                  cleanup >>

\* createRoomReferences(room, true), after sadd: subscribe "$<roomId>"
subscribeRoom(c) ==
  /\ Running(c) /\ call[c].pc = "refs"
  /\ channels' = channels \cup {call[c].room}
  /\ subscribers' = [subscribers EXCEPT ![call[c].room] = @ + 1]
  /\ call' = [call EXCEPT ![c].pc = "subscribed"]
  /\ UNCHANGED << handlers, sockets, localRooms, shutdown, alive, registry, listing, room,
                  rset, counter, requests, replies, replySubs, cleanup >>

\* room.listing.save(): the listing becomes visible in the registry
saveListing(c) ==
  /\ Running(c) /\ call[c].pc = "subscribed"
  /\ registry' = registry \cup {call[c].room}
  /\ call' = [call EXCEPT ![c].pc = "saved"]
  /\ UNCHANGED << handlers, sockets, localRooms, shutdown, alive, listing, room, rset,
                  counter, channels, subscribers, requests, replies, replySubs, cleanup >>

\* createRoom returns the listing; the caller reserves a seat in it
createReturns(c) ==
  /\ Running(c) /\ call[c].pc = "saved"
  /\ reserveSeatFor(c, call[c], call[c].room)
  /\ UNCHANGED << handlers, sockets, localRooms, shutdown, alive, registry, counter,
                  channels, subscribers, replies, cleanup >>

\* ----------------------------------------------- remote calls: delivery
\* the local path: the awaited method result arrives
localReturns(c) ==
  /\ Running(c) /\ call[c].pc = "localAwait"
  /\ call' = [call EXCEPT ![c] = Settled(call[c], Truth(call[c].value))]
  /\ UNCHANGED << handlers, sockets, localRooms, shutdown, alive, registry, listing, room,
                  rset, counter, channels, subscribers, requests, replies, replySubs, cleanup >>

\* the local path has no timer: the rejection timeout passes while the method
\* invoked by `await room[method].apply(room, args)` is still pending
localDeadline(c) ==
  /\ Running(c) /\ call[c].pc = "localAwait" /\ ~call[c].late
  /\ call' = [call EXCEPT ![c].late = TRUE]
  /\ UNCHANGED << handlers, sockets, localRooms, shutdown, alive, registry, listing, room,
                  rset, counter, channels, subscribers, requests, replies, replySubs, cleanup >>

\* the local path: the awaited method rejects
localThrows(c) ==
  /\ Running(c) /\ call[c].pc = "localAwait"
  /\ call' = [call EXCEPT ![c] = Settled(call[c], "error")]
  /\ UNCHANGED << handlers, sockets, localRooms, shutdown, alive, registry, listing, room,
                  rset, counter, channels, subscribers, requests, replies, replySubs, cleanup >>

\* reply(code, data) of the room channel handler: published on the reply
\* channel, kept for delivery when that channel is subscribed
reply(msgs, rid, code, v) ==
  IF rid \in replySubs
  THEN msgs \cup {[rid |-> rid, code |-> code, value |-> v, copies |-> 1]}
  ELSE msgs

\* one copy of message m has been handed to the subscribers
taken(msgs, m) ==
  IF m.copies > 1 THEN (msgs \ {m}) \cup {[m EXCEPT !.copies = @ - 1]}
                  ELSE msgs \ {m}

\* a message on "$<roomId>" reaches the owning process: the handler that
\* createRoomReferences subscribed invokes the method and replies
roomChannelHandler(m) ==
  /\ m \in requests
  /\ requests' = requests \ {m}
  /\ IF m.room \in channels
     THEN /\ MethodEffect(m.room, m.method, m.arg)
          /\ replies' = reply(replies, m.rid, "SUCCESS",
                              MethodValue(m.room, m.method, m.arg))
     ELSE UNCHANGED << room, listing, rset, replies >>
  /\ UNCHANGED << handlers, sockets, localRooms, shutdown, alive, registry, counter,
                  channels, subscribers, call, replySubs, cleanup >>

\* the room channel handler when the method's promise rejects: an ERROR reply
roomChannelHandlerThrows(m) ==
  /\ m \in requests /\ m.room \in channels
  /\ requests' = requests \ {m}
  /\ MethodEffect(m.room, m.method, m.arg)
  /\ replies' = reply(replies, m.rid, "ERROR", FALSE)
  /\ UNCHANGED << handlers, sockets, localRooms, shutdown, alive, registry, counter,
                  channels, subscribers, call, replySubs, cleanup >>

\* an unsubscribe that leaves the reply channel subscribed
unsubscribeNothing(subs, rid) == subs

\* unsubscribe() of remoteRoomCall: presence.unsubscribe(channel), clearTimeout
unsubscribe(subs, rid) == subs \ {rid}

\* a subscriber of a call's reply channel that does not unsubscribe
replyHandlerStaysSubscribed(m) ==
  /\ m \in replies /\ m.rid \in replySubs /\ m.rid[1] = "call"
  /\ replies' = taken(replies, m)
  /\ LET c == m.rid[2]
     IN call' = [call EXCEPT ![c] =
                   Settled(call[c], IF m.code = "SUCCESS" THEN Truth(m.value)
                                                          ELSE "error")]
  /\ UNCHANGED << handlers, sockets, localRooms, shutdown, alive, registry, listing, room,
                  rset, counter, channels, subscribers, requests, replySubs, cleanup >>

\* the subscriber of a call's reply channel: resolve or reject, then unsubscribe
replyHandler(m) ==
  /\ m \in replies /\ m.rid \in replySubs /\ m.rid[1] = "call"
  /\ replies' = taken(replies, m)
  /\ replySubs' = unsubscribe(replySubs, m.rid)
  /\ LET c == m.rid[2]
     IN call' = [call EXCEPT ![c] =
                   Settled(call[c], IF m.code = "SUCCESS" THEN Truth(m.value)
                                                          ELSE "error")]
  /\ UNCHANGED << handlers, sockets, localRooms, shutdown, alive, registry, listing, room,
                  rset, counter, channels, subscribers, requests, cleanup >>

\* the presence layer hands a reply out twice: a second copy is in flight
duplicate(m) ==
  /\ m \in replies /\ m.copies = 1
  /\ replies' = (replies \ {m}) \cup {[m EXCEPT !.copies = 2]}
  /\ UNCHANGED << handlers, sockets, localRooms, shutdown, alive, registry, listing, room,
                  rset, counter, channels, subscribers, call, requests, replySubs, cleanup >>

\* a reply on a channel nobody is subscribed to any more is dropped
replyDropped(m) ==
  /\ m \in replies /\ m.rid \notin replySubs
  /\ replies' = taken(replies, m)
  /\ UNCHANGED << handlers, sockets, localRooms, shutdown, alive, registry, listing, room,
                  rset, counter, channels, subscribers, call, requests, replySubs, cleanup >>

\* the rejection timer of a call's remoteRoomCall: unsubscribe and reject
rejectionTimeout(c) ==
  /\ Running(c) /\ call[c].pc = "awaitReply"
  /\ replySubs' = unsubscribe(replySubs, CallRid(c, call[c].room))
  /\ call' = [call EXCEPT ![c] = Settled([call[c] EXCEPT !.late = TRUE], "timeout")]
  /\ UNCHANGED << handlers, sockets, localRooms, shutdown, alive, registry, listing, room,
                  rset, counter, channels, subscribers, requests, replies, cleanup >>

\* --------------------------------------------------- joinById and create
\* joinById(roomId, options): driver.findOne({roomId}) reads the registry.
\* options.sessionId is absent, a session some room has recorded, or an id
\* that was never generated
joinById(c, p, r, s) ==
  /\ call[c].pc = "idle" /\ alive[p]
  /\ s \in {NoSession} \cup UNION { room[x].seats : x \in RoomIds } \cup FreeSessions
  /\ call' = [call EXCEPT ![c] = [IdleCall EXCEPT !.op = "joinById", !.proc = p,
                !.pc = "found", !.arg = s,
                !.room = IF r \in registry THEN r ELSE NoRoom,
                !.locked = (r \in registry /\ listing[r].locked)]]
  /\ UNCHANGED << handlers, sockets, localRooms, shutdown, alive, registry, listing, room,
                  rset, counter, channels, subscribers, requests, replies, replySubs, cleanup >>

\* joinById that reserves a seat without looking at room.locked
joinByIdIgnoresLock(c) ==
  /\ Running(c) /\ call[c].pc = "found"
  /\ LET cr == call[c]
     IN IF cr.room = NoRoom
        THEN /\ call' = [call EXCEPT ![c] = retry(cr, "ERR_MATCHMAKE_INVALID_ROOM_ID")]
             /\ UNCHANGED << room, listing, rset, requests, replySubs >>
        ELSE IF cr.arg # NoSession
        THEN remoteRoomCall(c, cr, cr.room, "hasReservedSeat", cr.arg)
        ELSE reserveSeatFor(c, cr, cr.room)
  /\ UNCHANGED << handlers, sockets, localRooms, shutdown, alive, registry, counter,
                  channels, subscribers, replies, cleanup >>

\* joinById that reserves a fresh seat when the client names a sessionId
joinByIdReservesOnRejoin(c) ==
  /\ Running(c) /\ call[c].pc = "found"
  /\ LET cr == call[c]
     IN IF cr.room = NoRoom \/ cr.locked
        THEN /\ call' = [call EXCEPT ![c] = retry(cr, "ERR_MATCHMAKE_INVALID_ROOM_ID")]
             /\ UNCHANGED << room, listing, rset, requests, replySubs >>
        ELSE reserveSeatFor(c, cr, cr.room)
  /\ UNCHANGED << handlers, sockets, localRooms, shutdown, alive, registry, counter,
                  channels, subscribers, replies, cleanup >>

\* joinById after findOne: rejoin, reserve a seat, or INVALID_ROOM_ID
joinByIdFound(c) ==
  /\ Running(c) /\ call[c].pc = "found"
  /\ LET cr == call[c]
     IN IF cr.room = NoRoom
        THEN /\ call' = [call EXCEPT ![c] = retry(cr, "ERR_MATCHMAKE_INVALID_ROOM_ID")]
             /\ UNCHANGED << room, listing, rset, requests, replySubs >>
        ELSE IF cr.arg # NoSession
        THEN remoteRoomCall(c, cr, cr.room, "hasReservedSeat", cr.arg)
        ELSE IF ~cr.locked
        THEN reserveSeatFor(c, cr, cr.room)
        ELSE /\ call' = [call EXCEPT ![c] = retry(cr, "ERR_MATCHMAKE_INVALID_ROOM_ID")]
             /\ UNCHANGED << room, listing, rset, requests, replySubs >>
  /\ UNCHANGED << handlers, sockets, localRooms, shutdown, alive, registry, counter,
                  channels, subscribers, replies, cleanup >>

\* create(roomName, options): no handler throws, else createRoom
create(c, p, n, m) ==
  /\ call[c].pc = "idle" /\ alive[p]
  /\ LET base == [IdleCall EXCEPT !.op = "create", !.proc = p, !.name = n, !.mode = m]
     IN IF n \notin handlers[p]
        THEN /\ call' = [call EXCEPT ![c] = retry(base, "ERR_MATCHMAKE_NO_HANDLER")]
             /\ UNCHANGED << room, listing >>
        ELSE createRoom(c, base)
  /\ UNCHANGED << handlers, sockets, localRooms, shutdown, alive, registry, rset, counter,
                  channels, subscribers, requests, replies, replySubs, cleanup >>

\* ------------------------------------------------ lock, unlock, dispose
\* the room locks itself (room.lock()): lockRoom runs on the 'lock' event
lock(r) ==
  /\ Listening(r) /\ Created(r) /\ alive[Owner(r)] /\ ~listing[r].locked
  /\ RoomLocks(r)
  /\ UNCHANGED << handlers, sockets, localRooms, shutdown, alive, registry, room, counter,
                  channels, subscribers, call, requests, replies, replySubs, cleanup >>

\* an unlockRoom that calls createRoomReferences(room, true) and so subscribes
\* the room channel once more
unlockRoomSubscribes(r) ==
  /\ Listening(r) /\ Created(r) /\ alive[Owner(r)] /\ listing[r].locked
  /\ localRooms' = [localRooms EXCEPT ![Owner(r)] = @ \cup {r}]
  /\ rset' = createRoomReferences(rset, listing[r].name, r)
  /\ listing' = [listing EXCEPT ![r].locked = FALSE]
  /\ channels' = channels \cup {r}
  /\ subscribers' = [subscribers EXCEPT ![r] = @ + 1]
  /\ UNCHANGED << handlers, sockets, shutdown, alive, registry, room, counter,
                  call, requests, replies, replySubs, cleanup >>

\* unlockRoom, run by the room's 'unlock' event: createRoomReferences(room)
\* stores the handle and adds the roomId to the set; the listing is unlocked
unlockRoom(r) ==
  /\ Listening(r) /\ Created(r) /\ alive[Owner(r)] /\ listing[r].locked
  /\ localRooms' = [localRooms EXCEPT ![Owner(r)] = @ \cup {r}]
  /\ rset' = createRoomReferences(rset, listing[r].name, r)
  /\ listing' = [listing EXCEPT ![r].locked = FALSE]
  /\ UNCHANGED << handlers, sockets, shutdown, alive, registry, room, counter, channels, subscribers,
                  call, requests, replies, replySubs, cleanup >>

\* disposeRoom's listing.remove()
removeListing(reg, r) == reg \ {r}

\* disposeRoom's presence.unsubscribe(getRoomChannel(roomId))
unsubscribeRoom(chs, r) == chs \ {r}

\* disposeRoom, run once by the room's 'dispose' event (the room disposes
\* itself when it is empty, or after room.disconnect()); 'disconnect' follows
\* and settles the promise of room.disconnect()
disposeRoom(r) ==
  /\ Listening(r) /\ alive[Owner(r)]
  /\ Created(r) \/ room[r].state = "disconnecting"
  /\ registry' = removeListing(registry, r)
  /\ counter' = [counter EXCEPT ![listing[r].name] = 0]
  /\ rset' = clearRoomReferences(rset, listing[r].name, r)
  /\ channels' = unsubscribeRoom(channels, r)
  /\ subscribers' = [subscribers EXCEPT ![r] = 0]
  /\ localRooms' = [localRooms EXCEPT ![Owner(r)] = @ \ {r}]
  /\ room' = [room EXCEPT ![r].state = "disposed"]
  /\ shutdown' = [shutdown EXCEPT ![Owner(r)].waiting = @ \ {r}]
  /\ UNCHANGED << handlers, sockets, alive, listing, call, requests, replies, replySubs,
                  cleanup >>

\* gracefullyShutdown(): sets the flag and disconnects every room of localRooms;
\* the promise it returns is Promise.all of the rooms' disconnect()
gracefullyShutdown(p) ==
  /\ alive[p] /\ ~shutdown[p].flag
  /\ shutdown' = [shutdown EXCEPT ![p] = [flag |-> TRUE, waiting |-> localRooms[p]]]
  /\ room' = [r \in RoomIds |->
                IF r \in localRooms[p] /\ room[r].state = "created"
                THEN [room[r] EXCEPT !.state = "disconnecting"] ELSE room[r]]
  /\ UNCHANGED << handlers, sockets, localRooms, alive, registry, listing, rset, counter,
                  channels, subscribers, call, requests, replies, replySubs, cleanup >>

\* the promise returned by gracefullyShutdown has resolved
ShutdownResolved(p) == shutdown[p].flag /\ shutdown[p].waiting = {}

\* ----------------------------------- defineRoomType, cleanupStaleRooms
\* defineRoomType(name, klass): registers the handler and starts
\* cleanupStaleRooms(name), whose driver.find({name}) reads the registry
defineRoomType(p, n) ==
  /\ alive[p] /\ cleanup[p].pc = "idle"
  /\ handlers' = [handlers EXCEPT ![p] = @ \cup {n}]
  /\ cleanup' = [cleanup EXCEPT ![p] = [pc |-> "found", name |-> n,
                   rooms |-> { r \in registry : listing[r].name = n }]]
  /\ UNCHANGED << sockets, localRooms, shutdown, alive, registry, listing, room,
                  rset, counter, channels, subscribers, call, requests, replies, replySubs >>

\* cleanupStaleRooms: presence.del(getHandlerConcurrencyKey(roomName))
cleanupDel(p) ==
  /\ alive[p] /\ cleanup[p].pc = "found"
  /\ counter' = [counter EXCEPT ![cleanup[p].name] = 0]
  /\ cleanup' = [cleanup EXCEPT ![p].pc = "deleted"]
  /\ UNCHANGED << handlers, sockets, localRooms, shutdown, alive, registry, listing, room,
                  rset, channels, subscribers, call, requests, replies, replySubs >>

\* cleanupStaleRooms: remoteRoomCall(room.roomId, 'roomId') for every listing
\* found; a room of localRooms answers at once, the others are asked over
\* their room channel
cleanupCalls(p) ==
  /\ alive[p] /\ cleanup[p].pc = "deleted"
  /\ LET asked == cleanup[p].rooms \ localRooms[p]
     IN /\ replySubs' = replySubs \cup { CleanRid(p, r) : r \in asked }
        /\ requests' = requests \cup
             { [room |-> r, method |-> "roomId", rid |-> CleanRid(p, r),
                arg |-> NoSession] : r \in asked \cap channels }
        /\ cleanup' = [cleanup EXCEPT ![p] =
             IF asked = {} THEN IdleCleanup
             ELSE [cleanup[p] EXCEPT !.pc = "calling", !.rooms = asked]]
  /\ UNCHANGED << handlers, sockets, localRooms, shutdown, alive, registry, listing, room,
                  rset, counter, channels, subscribers, call, replies >>

\* cleanupStaleRooms with one of its remote calls settled
CleanupSettled(cl, r) ==
  IF cl.rooms \ {r} = {} THEN IdleCleanup ELSE [cl EXCEPT !.rooms = @ \ {r}]

\* a catch clause that leaves the listing in the registry
staleRegistryKept(reg, r) == reg

\* the catch clause of cleanupStaleRooms: room.remove() and clearRoomReferences
staleRegistry(reg, r) == reg \ {r}
staleSet(set, n, r) == clearRoomReferences(set, n, r)

\* the subscriber of a cleanup call's reply channel
cleanupReply(m) ==
  /\ m \in replies /\ m.rid \in replySubs /\ m.rid[1] = "clean"
  /\ replies' = taken(replies, m)
  /\ replySubs' = unsubscribe(replySubs, m.rid)
  /\ LET p == m.rid[2]
         r == m.rid[3]
     IN /\ cleanup' = [cleanup EXCEPT ![p] = CleanupSettled(cleanup[p], r)]
        /\ IF m.code = "SUCCESS"
           THEN UNCHANGED << registry, rset >>
           ELSE /\ registry' = staleRegistry(registry, r)
                /\ rset' = staleSet(rset, cleanup[p].name, r)
  /\ UNCHANGED << handlers, sockets, localRooms, shutdown, alive, listing, room, counter,
                  channels, subscribers, call, requests >>

\* the rejection timer of a cleanup call: the listing is taken for stale
cleanupTimeout(p, r) ==
  /\ alive[p] /\ cleanup[p].pc = "calling" /\ r \in cleanup[p].rooms
  /\ replySubs' = unsubscribe(replySubs, CleanRid(p, r))
  /\ cleanup' = [cleanup EXCEPT ![p] = CleanupSettled(cleanup[p], r)]
  /\ registry' = staleRegistry(registry, r)
  /\ rset' = staleSet(rset, cleanup[p].name, r)
  /\ UNCHANGED << handlers, sockets, localRooms, shutdown, alive, listing, room, counter,
                  channels, subscribers, call, requests, replies >>

\* ------------------------------------------------------------------ crash
\* the process dies: its rooms, its subscriptions and its calls are gone, its
\* listings and set members stay behind
crash(p) ==
  /\ alive[p]
  /\ alive' = [alive EXCEPT ![p] = FALSE]
  /\ localRooms' = [localRooms EXCEPT ![p] = {}]
  /\ room' = [r \in RoomIds |->
                IF Owner(r) = p /\ room[r].state \notin {"none", "disposed"}
                THEN [room[r] EXCEPT !.state = "crashed"] ELSE room[r]]
  /\ channels' = { r \in channels : Owner(r) # p }
  /\ subscribers' = [r \in RoomIds |-> IF Owner(r) = p THEN 0 ELSE subscribers[r]]
  /\ replySubs' = { rid \in replySubs :
                      /\ ~(rid[1] = "clean" /\ rid[2] = p)
                      /\ ~(rid[1] = "call" /\ call[rid[2]].proc = p) }
  /\ cleanup' = [cleanup EXCEPT ![p] = IdleCleanup]
  /\ UNCHANGED << handlers, sockets, shutdown, registry, listing, rset, counter, call,
                  requests, replies >>

\* ------------------------------------- remoteRoomCall, called directly
\* the attributes a caller may name: a property of the room, a method of the
\* room, a method of the room class that throws, and a name the room lacks
RpcMethods == {"roomId", "hasReservedSeat", "throwing", "unknown"}

\* typeof room[method] === 'function'
IsFunction(method) == method \in {"_reserveSeat", "hasReservedSeat", "throwing"}

\* room[method], read as a property
AttributeValue(r, method) == IF method = "roomId" THEN "id" ELSE "undefined"

\* room[method].apply(room, args): a TypeError when the attribute is not a
\* function, the error the method throws, or the result it returns
Apply(r, method, arg) ==
  IF ~IsFunction(method) THEN [threw |-> TRUE, data |-> "TypeError message"]
  ELSE IF method = "throwing" THEN [threw |-> TRUE, data |-> "message"]
  ELSE [threw |-> FALSE, data |-> Truth(MethodValue(r, method, arg))]

\* the local path: [processId, property or awaited result]; what apply throws
\* rejects the call as it is, an Error object
localPath(p, r, method, arg) ==
  IF arg = NoSession /\ ~IsFunction(method)
  THEN [settled |-> "resolved", form |-> "pair", proc |-> p,
        data |-> AttributeValue(r, method)]
  ELSE LET a == Apply(r, method, arg)
       IN IF a.threw
          THEN [settled |-> "rejected", form |-> "Error", proc |-> NoProc,
                data |-> a.data]
          ELSE [settled |-> "resolved", form |-> "pair", proc |-> p, data |-> a.data]

\* the room channel handler of owner p: reply(code, data) publishes
\* [code, [processId, data]], with e.message as the data of an ERROR
channelReply(p, r, method, arg) ==
  IF arg = NoSession /\ ~IsFunction(method)
  THEN [code |-> "SUCCESS", proc |-> p, data |-> AttributeValue(r, method)]
  ELSE LET a == Apply(r, method, arg)
       IN [code |-> IF a.threw THEN "ERROR" ELSE "SUCCESS", proc |-> p,
           data |-> a.data]

\* the subscriber of the reply channel: `const [code, data] = message`, then
\* resolve(data) or reject(data), data being the pair [processId, ...]
subscriberOutcome(m) ==
  [settled |-> IF m.code = "SUCCESS" THEN "resolved" ELSE "rejected",
   form |-> "pair", proc |-> m.proc, data |-> m.data]

\* the room's seats are settled: the call that created it has returned
SeatsSettled(r) == \A d \in Calls : (call[d].made = {r}) => call[d].pc = "done"

\* remoteRoomCall(roomId, method, args) called on process p; arg = NoSession
\* stands for a call without args
callRoom(c, p, r, method, arg) ==
  /\ call[c].pc = "idle" /\ alive[p] /\ r \in registry /\ SeatsSettled(r)
  /\ LET base == [IdleCall EXCEPT !.op = "remoteRoomCall", !.proc = p, !.room = r,
                                  !.method = method, !.arg = arg]
         rid == << "rpc", c, r, 0 >>
     IN IF r \in localRooms[p]
        THEN /\ call' = [call EXCEPT ![c] = [base EXCEPT !.pc = "done",
                            !.path = "local",
                            !.outcome = localPath(p, r, method, arg)]]
             /\ UNCHANGED << requests, replySubs >>
        ELSE /\ call' = [call EXCEPT ![c] = [base EXCEPT !.pc = "awaitRpc",
                            !.path = "pubsub"]]
             /\ replySubs' = replySubs \cup {rid}
             /\ requests' = publish(requests, r,
                              [room |-> r, method |-> method, rid |-> rid, arg |-> arg])
  /\ UNCHANGED << handlers, sockets, localRooms, shutdown, alive, registry, listing, room,
                  rset, counter, channels, subscribers, replies, cleanup >>

\* the room channel handler, for a request of a direct call
rpcChannelHandler(m) ==
  /\ m \in requests /\ m.rid[1] = "rpc" /\ m.room \in channels
  /\ requests' = requests \ {m}
  /\ replies' = IF m.rid \in replySubs
                THEN replies \cup {[rid |-> m.rid] @@
                         channelReply(Owner(m.room), m.room, m.method, m.arg)}
                ELSE replies
  /\ UNCHANGED << handlers, sockets, localRooms, shutdown, alive, registry, listing, room,
                  rset, counter, channels, subscribers, call, replySubs, cleanup >>

\* the subscriber of the reply channel of a direct call
rpcReplyHandler(m) ==
  /\ m \in replies /\ m.rid[1] = "rpc" /\ m.rid \in replySubs
  /\ replies' = replies \ {m}
  /\ replySubs' = unsubscribe(replySubs, m.rid)
  /\ call' = [call EXCEPT ![m.rid[2]].pc = "done",
                          ![m.rid[2]].outcome = subscriberOutcome(m)]
  /\ UNCHANGED << handlers, sockets, localRooms, shutdown, alive, registry, listing, room,
                  rset, counter, channels, subscribers, requests, cleanup >>

\* ------------------------------------------------------ WebSocketTransport
exposedMethods == {"joinOrCreate", "create", "join", "joinById"}

\* the methods a client can name in the URL of a matchmake socket
UrlMethods == {"create", "joinOrCreate", "getRoomById"}

\* onConnection on a '/matchmake/<method>/<name>' URL: handleMatchmake1 takes
\* method and name from the URL and installs client.onmessage
onConnection(k, p, method, n) ==
  /\ sockets[k].state = "none" /\ alive[p]
  /\ sockets' = [sockets EXCEPT ![k] = [NoSocket EXCEPT !.state = "matchmake",
                    !.proc = p, !.method = method, !.name = n]]
  /\ UNCHANGED << handlers, localRooms, shutdown, alive, registry, listing, room,
                  rset, counter, channels, subscribers, call, requests, replies, replySubs,
                  cleanup >>

\* client.onmessage, for every message of the socket: handelMatchmake2 sends
\* the error of a method that is not exposed, or runs matchMaker[method](name,
\* body) up to its first await
onmessage(k, c, m) ==
  LET s == sockets[k]
      base == [IdleCall EXCEPT !.op = s.method, !.proc = s.proc, !.name = s.name,
                               !.mode = m]
  IN /\ s.state = "matchmake" /\ alive[s.proc] /\ s.received < MaxMessages
     /\ IF s.method \notin exposedMethods
        THEN /\ sockets' = [sockets EXCEPT ![k].received = @ + 1, ![k].sent = @ + 1]
             /\ UNCHANGED << call, counter, room, listing >>
        ELSE /\ call[c].pc = "idle"
             /\ sockets' = [sockets EXCEPT ![k].received = @ + 1,
                                           ![k].invoked = @ \cup {c}]
             /\ IF s.method # "create"
                THEN awaitRoomAvailable(c, base) /\ UNCHANGED << room, listing >>
                ELSE IF s.name \notin handlers[s.proc]
                     THEN /\ call' = [call EXCEPT ![c] =
                                        retry(base, "ERR_MATCHMAKE_NO_HANDLER")]
                          /\ UNCHANGED << counter, room, listing >>
                     ELSE createRoom(c, base) /\ UNCHANGED counter
     /\ UNCHANGED << handlers, localRooms, shutdown, alive, registry, rset,
                     channels, subscribers, requests, replies, replySubs, cleanup >>

\* handelMatchmake2 after `await this.matchMaker[method](name, body)`:
\* client.send of the response or of the error caught
send(k, c) ==
  /\ c \in sockets[k].invoked \ sockets[k].answered
  /\ call[c].pc = "done" /\ alive[sockets[k].proc]
  /\ sockets' = [sockets EXCEPT ![k].answered = @ \cup {c}, ![k].sent = @ + 1]
  /\ UNCHANGED << handlers, localRooms, shutdown, alive, registry, listing, room,
                  rset, counter, channels, subscribers, call, requests, replies, replySubs,
                  cleanup >>

\* ------------------------------------------- WebSocketTransport: heartbeat
\* client.pingCount++ : undefined and NaN become NaN
increment(x) == IF x = Undefined THEN Undefined ELSE x + 1

\* client.pingCount >= pingCountMax : false for undefined and for NaN
atLeast(x, n) == x # Undefined /\ x >= n

\* the client is one of wss.clients
Connected(k) == sockets[k].state \in {"matchmake", "room"}

\* onConnection on any other URL: handleMatchJoin sets client.pingCount = 0
\* and awaits room._onJoin, whose failure closes the socket
handleMatchJoin(k, p, joined) ==
  /\ sockets[k].state = "none" /\ alive[p]
  /\ sockets' = [sockets EXCEPT ![k] = [NoSocket EXCEPT
                    !.state = IF joined THEN "room" ELSE "closed",
                    !.proc = p, !.pingCount = 0]]
  /\ UNCHANGED << handlers, localRooms, shutdown, alive, registry, listing, room,
                  rset, counter, channels, subscribers, call, requests, replies,
                  replySubs, cleanup >>

\* one client of the interval's forEach: terminate it, or count and ping it
pinged(s) ==
  IF atLeast(s.pingCount, pingCountMax)
  THEN [s EXCEPT !.state = "terminated"]
  ELSE [s EXCEPT !.pingCount = increment(@), !.unanswered = @ + 1]

\* the interval callback of autoTerminateUnresponsiveClients on process p
heartbeatInterval(p) ==
  /\ alive[p]
  /\ \E k \in Sockets : Connected(k) /\ sockets[k].proc = p
  /\ \A k \in Sockets : (Connected(k) /\ sockets[k].proc = p)
                           => sockets[k].unanswered < MaxPings
  /\ sockets' = [k \in Sockets |->
                   IF Connected(k) /\ sockets[k].proc = p THEN pinged(sockets[k])
                                                          ELSE sockets[k]]
  /\ UNCHANGED << handlers, localRooms, shutdown, alive, registry, listing, room,
                  rset, counter, channels, subscribers, call, requests, replies,
                  replySubs, cleanup >>

\* the client answers the last ping: 'pong' runs heartbeat()
heartbeat(k) ==
  /\ Connected(k) /\ alive[sockets[k].proc] /\ sockets[k].unanswered > 0
  /\ sockets' = [sockets EXCEPT ![k].pingCount = 0, ![k].unanswered = 0]
  /\ UNCHANGED << handlers, localRooms, shutdown, alive, registry, listing, room,
                  rset, counter, channels, subscribers, call, requests, replies,
                  replySubs, cleanup >>

\* ------------------------------------------------------- specifications
Next ==
  \/ \E c \in Calls, p \in Procs, n \in Names, m \in Modes : joinOrCreate(c, p, n, m)
  \/ \E c \in Calls, p \in Procs, n \in Names, m \in Modes : create(c, p, n, m)
  \/ \E c \in Calls, p \in Procs, r \in RoomIds, s \in Sessions \cup {NoSession} :
       joinById(c, p, r, s)
  \/ \E c \in Calls : \/ retryAttempt(c) \/ queryRoom(c) \/ queryReturns(c)
                      \/ onCreateReturns(c) \/ onCreateThrows(c)
                      \/ subscribeRoom(c) \/ saveListing(c) \/ createReturns(c)
                      \/ localReturns(c) \/ localThrows(c) \/ localDeadline(c)
                      \/ rejectionTimeout(c) \/ joinByIdFound(c)
  \/ \E m \in requests : roomChannelHandler(m) \/ roomChannelHandlerThrows(m)
  \/ \E m \in replies : replyHandler(m) \/ replyDropped(m) \/ cleanupReply(m)
  \/ \E r \in RoomIds : lock(r) \/ unlockRoom(r) \/ disposeRoom(r)
  \/ \E p \in Procs, n \in Names : defineRoomType(p, n)
  \/ \E p \in Procs : \/ gracefullyShutdown(p)
                      \/ cleanupDel(p) \/ cleanupCalls(p) \/ crash(p)
  \/ \E p \in Procs, r \in RoomIds : cleanupTimeout(p, r)

Spec == Init /\ [][Next]_vars

\* the state of a fleet that has registered its handlers on an empty registry
\* (defineRoomType on every process; cleanupStaleRooms found nothing)
InitServing ==
  /\ handlers = [p \in Procs |-> Names]
  /\ localRooms = [p \in Procs |-> {}]
  /\ shutdown = [p \in Procs |-> [flag |-> FALSE, waiting |-> {}]]
  /\ alive = [p \in Procs |-> TRUE]
  /\ registry = {}
  /\ listing = [r \in RoomIds |-> NoListing]
  /\ room = [r \in RoomIds |-> NoRoomHandle]
  /\ rset = [n \in Types |-> {}]
  /\ counter = [n \in Types |-> 0]
  /\ channels = {}
  /\ call = [c \in Calls |-> IdleCall]
  /\ requests = {}
  /\ replies = {}
  /\ replySubs = {}
  /\ cleanup = [p \in Procs |-> IdleCleanup]
  /\ sockets = [k \in Sockets |-> NoSocket]
  /\ subscribers = [r \in RoomIds |-> 0]

\* rooms are created, joined, locked, unlocked and disposed
NextRooms ==
  \/ \E c \in TwoCalls, p \in Procs, n \in Names, m \in Modes : joinOrCreate(c, p, n, m)
  \/ \E c \in TwoCalls, p \in Procs, n \in Names, m \in Modes : create(c, p, n, m)
  \/ \E c \in TwoCalls : \/ retryAttempt(c) \/ queryRoom(c) \/ queryReturns(c)
                      \/ onCreateReturns(c) \/ onCreateThrows(c)
                      \/ subscribeRoom(c) \/ saveListing(c) \/ createReturns(c)
                      \/ localReturns(c) \/ rejectionTimeout(c)
  \/ \E m \in requests : roomChannelHandler(m)
  \/ \E m \in replies : replyHandler(m) \/ replyDropped(m)
  \/ \E r \in RoomIds : lock(r) \/ unlockRoom(r) \/ disposeRoom(r)

SpecRooms == InitServing /\ [][NextRooms]_vars

\* handlers are registered while rooms are created and disposed; processes
\* may crash
NextCleanup ==
  \/ \E c \in TwoCalls, p \in Procs, n \in Names, m \in Modes : create(c, p, n, m)
  \/ \E c \in TwoCalls : \/ onCreateReturns(c) \/ subscribeRoom(c) \/ saveListing(c)
                      \/ createReturns(c) \/ localReturns(c)
  \/ \E m \in requests : roomChannelHandler(m)
  \/ \E m \in replies : cleanupReply(m) \/ replyDropped(m)
  \/ \E r \in RoomIds : disposeRoom(r)
  \/ \E p \in Procs, n \in Names : defineRoomType(p, n)
  \/ \E p \in Procs : cleanupDel(p) \/ cleanupCalls(p) \/ crash(p)
  \/ \E p \in Procs, r \in RoomIds : cleanupTimeout(p, r)

SpecCleanup == Init /\ [][NextCleanup]_vars

\* rooms are created and then called by id, from their own process and from
\* the other one; the clock of each call's rejection timeout runs
NextRpc ==
  \/ \E c \in Calls, p \in Procs, n \in Names, m \in Modes : create(c, p, n, m)
  \/ \E c \in Calls, p \in Procs, r \in RoomIds, s \in Sessions \cup {NoSession} :
       joinById(c, p, r, s)
  \/ \E c \in Calls : \/ onCreateReturns(c) \/ subscribeRoom(c) \/ saveListing(c)
                      \/ createReturns(c) \/ joinByIdFound(c)
                      \/ localReturns(c) \/ localThrows(c) \/ localDeadline(c)
                      \/ rejectionTimeout(c)
  \/ \E m \in requests : roomChannelHandler(m) \/ roomChannelHandlerThrows(m)
  \/ \E m \in replies : replyHandler(m) \/ replyDropped(m)

SpecRpc == InitServing /\ [][NextRpc]_vars

\* processes shut down gracefully while rooms are created and disposed
NextShutdown ==
  \/ \E c \in TwoCalls, p \in Procs, n \in Names, m \in Modes : create(c, p, n, m)
  \/ \E c \in TwoCalls : \/ onCreateReturns(c) \/ subscribeRoom(c) \/ saveListing(c)
                         \/ createReturns(c) \/ localReturns(c) \/ rejectionTimeout(c)
  \/ \E m \in requests : roomChannelHandler(m)
  \/ \E m \in replies : replyHandler(m) \/ replyDropped(m)
  \/ \E r \in RoomIds : disposeRoom(r)
  \/ \E p \in Procs : gracefullyShutdown(p)

SpecShutdown == InitServing /\ [][NextShutdown]_vars

\* every process serves both room types
InitTypes ==
  /\ handlers = [p \in Procs |-> Types]
  /\ localRooms = [p \in Procs |-> {}]
  /\ shutdown = [p \in Procs |-> [flag |-> FALSE, waiting |-> {}]]
  /\ alive = [p \in Procs |-> TRUE]
  /\ registry = {}
  /\ listing = [r \in RoomIds |-> NoListing]
  /\ room = [r \in RoomIds |-> NoRoomHandle]
  /\ rset = [n \in Types |-> {}]
  /\ counter = [n \in Types |-> 0]
  /\ channels = {}
  /\ call = [c \in Calls |-> IdleCall]
  /\ requests = {}
  /\ replies = {}
  /\ replySubs = {}
  /\ cleanup = [p \in Procs |-> IdleCleanup]
  /\ sockets = [k \in Sockets |-> NoSocket]
  /\ subscribers = [r \in RoomIds |-> 0]

\* no matchmaking call is in flight
Quiet == \A c \in Calls : call[c].pc \in {"idle", "done"}

\* one matchmaking call at a time, every remote call answered in time; rooms
\* lock themselves when full, lock on request, and unlock while they have room
NextSequential ==
  \/ \E c \in Calls, p \in Procs, n \in Types, m \in Modes :
       Quiet /\ joinOrCreate(c, p, n, m)
  \/ \E c \in Calls, p \in Procs, n \in Types, m \in Modes :
       Quiet /\ create(c, p, n, m)
  \/ \E c \in Calls, p \in Procs, r \in RoomIds, s \in Sessions \cup {NoSession} :
       Quiet /\ joinById(c, p, r, s)
  \/ \E c \in Calls : \/ queryRoom(c) \/ queryReturns(c)
                      \/ onCreateReturns(c) \/ subscribeRoom(c) \/ saveListing(c)
                      \/ createReturns(c) \/ joinByIdFound(c) \/ localReturns(c)
  \/ \E m \in requests : roomChannelHandler(m)
  \/ \E m \in replies : replyHandler(m)
  \/ \E r \in RoomIds : lock(r)
  \/ \E r \in RoomIds : ~hasReachedMaxClients(r, room[r].seats) /\ unlockRoom(r)

SpecSequential == InitTypes /\ [][NextSequential]_vars

\* no room of type n has been instantiated
NoRoomOfType(n) == \A r \in RoomIds : listing[r].name # n

\* joinOrCreate calls issued while no room of their type exists, every remote
\* call answered in time
NextConverge ==
  \/ \E c \in TwoCalls, p \in Procs, n \in Types, m \in Modes :
       NoRoomOfType(n) /\ joinOrCreate(c, p, n, m)
  \/ \E c \in TwoCalls : \/ retryAttempt(c) \/ queryRoom(c) \/ queryReturns(c)
                         \/ onCreateReturns(c) \/ subscribeRoom(c) \/ saveListing(c)
                         \/ createReturns(c) \/ localReturns(c)
  \/ \E m \in requests : roomChannelHandler(m)
  \/ \E m \in replies : replyHandler(m)

SpecConverge == InitTypes /\ [][NextConverge]_vars

\* process A serves both room types, process B only "chat"
InitPartial ==
  /\ handlers = [p \in Procs |-> IF p = "A" THEN Types ELSE Names]
  /\ localRooms = [p \in Procs |-> {}]
  /\ shutdown = [p \in Procs |-> [flag |-> FALSE, waiting |-> {}]]
  /\ alive = [p \in Procs |-> TRUE]
  /\ registry = {}
  /\ listing = [r \in RoomIds |-> NoListing]
  /\ room = [r \in RoomIds |-> NoRoomHandle]
  /\ rset = [n \in Types |-> {}]
  /\ counter = [n \in Types |-> 0]
  /\ channels = {}
  /\ call = [c \in Calls |-> IdleCall]
  /\ requests = {}
  /\ replies = {}
  /\ replySubs = {}
  /\ cleanup = [p \in Procs |-> IdleCleanup]
  /\ sockets = [k \in Sockets |-> NoSocket]
  /\ subscribers = [r \in RoomIds |-> 0]

\* joinOrCreate calls whose attempts fail in every way: no handler, onCreate
\* throws, the room refuses the seat, the remote call times out or rejects
NextRetry ==
  \/ \E c \in TwoCalls, p \in Procs, n \in Types, m \in Modes : joinOrCreate(c, p, n, m)
  \/ \E c \in TwoCalls : \/ retryAttempt(c) \/ queryRoom(c) \/ queryReturns(c)
                         \/ onCreateReturns(c) \/ onCreateThrows(c)
                         \/ subscribeRoom(c) \/ saveListing(c) \/ createReturns(c)
                         \/ localReturns(c) \/ localThrows(c) \/ rejectionTimeout(c)
  \/ \E m \in requests : roomChannelHandler(m) \/ roomChannelHandlerThrows(m)
  \/ \E m \in replies : replyHandler(m) \/ replyDropped(m)
  \/ \E r \in RoomIds : unlockRoom(r)

SpecRetry == InitPartial /\ [][NextRetry]_vars

\* rooms are created, fill up and are unlocked again while join calls look
\* for a seat; every remote call is answered in time
NextJoin ==
  \/ \E c \in Calls, p \in Procs, n \in Names, m \in Modes : create(c, p, n, m)
  \/ \E c \in Calls, p \in Procs, n \in Names, m \in Modes : join(c, p, n, m)
  \/ \E c \in Calls : \/ queryRoom(c) \/ queryReturns(c)
                      \/ onCreateReturns(c) \/ subscribeRoom(c) \/ saveListing(c)
                      \/ createReturns(c) \/ localReturns(c)
  \/ \E m \in requests : roomChannelHandler(m)
  \/ \E m \in replies : replyHandler(m)
  \/ \E r \in RoomIds : unlockRoom(r)

SpecJoin == InitServing /\ [][NextJoin]_vars

\* rooms are called by id from the other process; replies may be handed out
\* twice and may arrive after the caller's timeout
NextReplies ==
  \/ \E c \in Calls, p \in Procs, n \in Names, m \in Modes : create(c, p, n, m)
  \/ \E c \in Calls, p \in Procs, r \in RoomIds, s \in Sessions \cup {NoSession} :
       joinById(c, p, r, s)
  \/ \E c \in Calls : \/ onCreateReturns(c) \/ subscribeRoom(c) \/ saveListing(c)
                      \/ createReturns(c) \/ joinByIdFound(c)
                      \/ localReturns(c) \/ rejectionTimeout(c)
  \/ \E m \in requests : roomChannelHandler(m)
  \/ \E m \in replies : replyHandler(m) \/ replyDropped(m) \/ duplicate(m)

SpecReplies == InitServing /\ [][NextReplies]_vars

\* processes crash and handlers are registered afterwards; the awaited steps
\* and the timers of a running cleanupStaleRooms are eventually run
NextStale ==
  \/ \E c \in TwoCalls, p \in Procs, n \in Names, m \in Modes : create(c, p, n, m)
  \/ \E c \in TwoCalls : \/ onCreateReturns(c) \/ subscribeRoom(c) \/ saveListing(c)
                         \/ createReturns(c) \/ localReturns(c)
  \/ \E m \in requests : roomChannelHandler(m)
  \/ \E m \in replies : cleanupReply(m) \/ replyDropped(m)
  \/ \E p \in Procs, n \in Names : defineRoomType(p, n)
  \/ \E p \in Procs : cleanupDel(p) \/ cleanupCalls(p) \/ crash(p)
  \/ \E p \in Procs, r \in RoomIds : cleanupTimeout(p, r)

SpecStale ==
  /\ Init /\ [][NextStale]_vars
  /\ \A p \in Procs : WF_vars(cleanupDel(p)) /\ WF_vars(cleanupCalls(p))
  /\ \A p \in Procs, r \in RoomIds : WF_vars(cleanupTimeout(p, r))

\* a clean registry: no process crashes and no room is disposed, while
\* handlers are registered again and again on either process
NextClean ==
  \/ \E c \in TwoCalls, p \in Procs, n \in Names, m \in Modes : create(c, p, n, m)
  \/ \E c \in TwoCalls : \/ onCreateReturns(c) \/ subscribeRoom(c) \/ saveListing(c)
                         \/ createReturns(c) \/ localReturns(c)
  \/ \E m \in requests : roomChannelHandler(m)
  \/ \E m \in replies : cleanupReply(m) \/ replyDropped(m)
  \/ \E p \in Procs, n \in Names : defineRoomType(p, n)
  \/ \E p \in Procs : cleanupDel(p) \/ cleanupCalls(p)
  \/ \E p \in Procs, r \in RoomIds : cleanupTimeout(p, r)

SpecClean == Init /\ [][NextClean]_vars

\* clients reach the matchmaker of either process through matchmake sockets
NextTransport ==
  \/ \E k \in Sockets, p \in Procs, method \in UrlMethods, n \in Names :
        onConnection(k, p, method, n)
  \/ \E k \in Sockets, c \in Calls, m \in Modes : onmessage(k, c, m)
  \/ \E k \in Sockets, c \in Calls : send(k, c)
  \/ \E c \in Calls : \/ queryRoom(c) \/ queryReturns(c)
                      \/ onCreateReturns(c) \/ subscribeRoom(c) \/ saveListing(c)
                      \/ createReturns(c) \/ localReturns(c)
  \/ \E m \in requests : roomChannelHandler(m)
  \/ \E m \in replies : replyHandler(m)

SpecTransport == InitServing /\ [][NextTransport]_vars

\* queries pass the admission gate while rooms are disposed and handlers are
\* registered (stale cleanup runs); no process crashes
NextCounter ==
  \/ \E c \in TwoCalls, p \in Procs, n \in Names, m \in Modes : joinOrCreate(c, p, n, m)
  \/ \E c \in TwoCalls : \/ queryRoom(c) \/ queryReturns(c)
                         \/ onCreateReturns(c) \/ subscribeRoom(c) \/ saveListing(c)
                         \/ createReturns(c) \/ localReturns(c)
  \/ \E m \in requests : roomChannelHandler(m)
  \/ \E m \in replies : replyHandler(m)
  \/ \E m \in replies : cleanupReply(m)
  \/ \E m \in replies : replyDropped(m)
  \/ \E r \in RoomIds : disposeRoom(r)
  \/ \E p \in Procs, n \in Names : defineRoomType(p, n)
  \/ \E p \in Procs : cleanupDel(p) \/ cleanupCalls(p)
  \/ \E p \in Procs, r \in RoomIds : cleanupTimeout(p, r)

SpecCounter == InitServing /\ [][NextCounter]_vars

\* rooms are created, directly and by joinOrCreate; onCreate may throw
NextCreate ==
  \/ \E c \in Calls, p \in Procs, n \in Names, m \in Modes : create(c, p, n, m)
  \/ \E c \in Calls, p \in Procs, n \in Names, m \in Modes : joinOrCreate(c, p, n, m)
  \/ \E c \in Calls : \/ queryRoom(c) \/ queryReturns(c)
                      \/ onCreateReturns(c) \/ onCreateThrows(c)
                      \/ subscribeRoom(c) \/ saveListing(c)
                      \/ createReturns(c) \/ localReturns(c)
  \/ \E m \in requests : roomChannelHandler(m)
  \/ \E m \in replies : replyHandler(m)

SpecCreate == InitServing /\ [][NextCreate]_vars

\* rooms are created, then locked and unlocked in any order while they are
\* joined by id from either process; no room is disposed
NextLocks ==
  \/ \E c \in Calls, p \in Procs, n \in Names, m \in Modes : create(c, p, n, m)
  \/ \E c \in Calls, p \in Procs, r \in RoomIds, s \in Sessions \cup {NoSession} :
       joinById(c, p, r, s)
  \/ \E c \in Calls : \/ onCreateReturns(c) \/ subscribeRoom(c) \/ saveListing(c)
                      \/ createReturns(c) \/ joinByIdFound(c) \/ localReturns(c)
  \/ \E m \in requests : roomChannelHandler(m)
  \/ \E m \in replies : replyHandler(m)
  \/ \E r \in RoomIds : lock(r)
  \/ \E r \in RoomIds : unlockRoom(r)

SpecLocks == InitServing /\ [][NextLocks]_vars

\* rooms are created and then called directly from either process, every
\* remote call answered in time
NextPaths ==
  \/ \E c \in Calls, p \in Procs, n \in Names, m \in Modes : create(c, p, n, m)
  \/ \E c \in Calls : \/ onCreateReturns(c) \/ subscribeRoom(c) \/ saveListing(c)
                      \/ createReturns(c) \/ localReturns(c)
  \/ \E c \in Calls, p \in Procs, r \in RoomIds, method \in RpcMethods,
        arg \in Sessions \cup {NoSession} : callRoom(c, p, r, method, arg)
  \/ \E m \in requests : rpcChannelHandler(m)
  \/ \E m \in replies : rpcReplyHandler(m)

SpecPaths == InitServing /\ [][NextPaths]_vars

\* rooms are looked up and joined from either process while they are being
\* created; the clock of each call's rejection timeout runs
NextFresh ==
  \/ \E c \in Calls, p \in Procs, n \in Names, m \in Modes : create(c, p, n, m)
  \/ \E c \in Calls, p \in Procs, n \in Names, m \in Modes : joinOrCreate(c, p, n, m)
  \/ \E c \in Calls, p \in Procs, r \in RoomIds : joinById(c, p, r, NoSession)
  \/ \E c \in Calls : \/ queryRoom(c) \/ queryReturns(c)
                      \/ onCreateReturns(c) \/ subscribeRoom(c) \/ saveListing(c)
                      \/ createReturns(c) \/ joinByIdFound(c) \/ localReturns(c)
                      \/ rejectionTimeout(c)
  \/ \E m \in requests : roomChannelHandler(m)
  \/ \E m \in replies : replyHandler(m)
  \/ \E m \in replies : replyDropped(m)

SpecFresh == InitServing /\ [][NextFresh]_vars

\* clients connect on either path and are pinged; they answer or stay silent
NextHeartbeat ==
  \/ \E k \in Sockets, p \in Procs, method \in UrlMethods, n \in Names :
        onConnection(k, p, method, n)
  \/ \E k \in Sockets, p \in Procs, joined \in BOOLEAN : handleMatchJoin(k, p, joined)
  \/ \E p \in Procs : heartbeatInterval(p)
  \/ \E k \in Sockets : heartbeat(k)

SpecHeartbeat == Init /\ [][NextHeartbeat]_vars

\* ------------------------------------------------------------- claims
\* C1: a room whose listing is locked is not a member of the presence set of
\* its room type, and no queryRoom has returned a locked listing
C1_LockedNeverOffered ==
  /\ \A r \in RoomIds : listing[r].locked => r \notin rset[listing[r].name]
  /\ \A c \in Calls : call[c].pc = "queried" => ~call[c].locked

\* a query has passed over a saved, locked listing that is out of the set
C1_Witness ==
  \E c \in Calls, r \in registry :
    /\ call[c].pc = "queried" /\ call[c].room = NoRoom
    /\ listing[r].locked /\ listing[r].name = call[c].name
    /\ r \notin rset[listing[r].name]

\* C2: for every roomId at most one process has it in localRooms, and that
\* process is the one named by the processId of the room's listing
C2_SingleOwner ==
  \A r \in RoomIds :
    /\ Cardinality({ p \in Procs : r \in localRooms[p] }) <= 1
    /\ \A p \in Procs : r \in localRooms[p] => listing[r].processId = p

\* both processes hold a room of their own
C2_Witness ==
  \E p \in Procs, q \in Procs :
    p # q /\ localRooms[p] # {} /\ localRooms[q] # {}

\* C3: the registry holds the listing of every live room (createRoom has
\* returned, dispose has not run on its owner) and no listing of a disposed
\* room; stale cleanup never removes the listing of a live room
C3_OneListingPerLiveRoom ==
  \A r \in RoomIds :
    /\ (Created(r) /\ alive[Owner(r)]) => r \in registry
    /\ room[r].state = "disposed" => r \notin registry

\* a remoteRoomCall of call c is pending
Pending(c) == call[c].pc \in {"localAwait", "awaitReply"}

\* the reply channels subscribed for call c
CallSubs(c) == { rid \in replySubs : rid[1] = "call" /\ rid[2] = c }

\* C4 as claimed: on either path the call has settled once its timeout has
\* elapsed, and a settled call has left no reply channel subscribed
C4_SettledByTimeout ==
  \A c \in Calls :
    /\ call[c].late => ~Pending(c)
    /\ ~Pending(c) => CallSubs(c) = {}

\* C4 as amended: a call on the pub/sub path has settled once its timeout has
\* elapsed; a call on the local path never subscribes a reply channel; and a
\* settled call has left no reply channel subscribed
C4_PubSubSettledByTimeout ==
  \A c \in Calls :
    /\ (call[c].late /\ call[c].path = "pubsub") => ~Pending(c)
    /\ call[c].pc # "awaitReply" => CallSubs(c) = {}
    /\ call[c].pc = "awaitReply" => CallSubs(c) = {CallRid(c, call[c].room)}

\* one call was rejected by its timeout, another was settled by a reply, and
\* no reply channel is left subscribed
C4_Witness ==
  \E c \in Calls, d \in Calls :
    /\ call[c].path = "pubsub" /\ call[c].late /\ call[c].pc = "done"
    /\ call[c].result = "RemoteCallTimeout"
    /\ call[d].path = "pubsub" /\ ~call[d].late /\ call[d].pc = "done"
    /\ replySubs = {}

\* C5: once the promise of gracefullyShutdown has resolved, the process has
\* no room in localRooms and no room channel subscribed, also when createRoom
\* is in flight or arrives during the shutdown
C5_ShutdownLeavesNothing ==
  \A p \in Procs :
    ShutdownResolved(p) =>
      /\ localRooms[p] = {}
      /\ \A r \in channels : Owner(r) # p

\* joinById calls without and with a sessionId
Joins(c) == call[c].op = "joinById" /\ call[c].arg = NoSession
Rejoins(c) == call[c].op = "joinById" /\ call[c].arg # NoSession

Creating(c) == call[c].pc \in {"onCreate", "refs", "subscribed", "saved"}
Seated(c) ==
  /\ call[c].pc = "done" /\ call[c].result = "seat"
  /\ call[c].room # NoRoom /\ call[c].sid # NoSession
  /\ call[c].sid \in room[call[c].room].seats

RoomsOfType(n) == { r \in RoomIds : listing[r].name = n }

C10_RetryOnlySeatReservation ==
  \A c \in Calls :
    call[c].op = "joinOrCreate" =>
      /\ call[c].retries <= MaxRetries
      /\ call[c].pc = "retryWait" => call[c].result = "SeatReservationError"
      /\ call[c].pc # "done" =>
           call[c].result = IF call[c].retries = 0 THEN "none"
                                                   ELSE "SeatReservationError"
      /\ (call[c].pc = "done" /\ call[c].result = "SeatReservationError") =>
           call[c].retries = MaxRetries
      /\ call[c].pc = "done" =>
           call[c].result \in {"seat", "SeatReservationError",
                               "ERR_MATCHMAKE_NO_HANDLER", "ERR_MATCHMAKE_UNHANDLED",
                               "RemoteCallTimeout", "RemoteCallError"}

\* one call gave up with SeatReservationError after MaxRetries retries, the
\* other was settled by another error without using up its retries
C10_Witness ==
  \E c \in Calls, d \in Calls :
    /\ call[c].op = "joinOrCreate" /\ call[c].pc = "done"
    /\ call[c].result = "SeatReservationError" /\ call[c].retries = MaxRetries
    /\ call[d].op = "joinOrCreate" /\ call[d].pc = "done"
    /\ call[d].result \in {"ERR_MATCHMAKE_NO_HANDLER", "ERR_MATCHMAKE_UNHANDLED",
                            "RemoteCallTimeout", "RemoteCallError"}
    /\ call[d].retries < MaxRetries

\* C11: a join whose seat reservation fails starts another attempt, so it
\* fails with SeatReservationError only after it has retried; a join whose
\* query finds no room fails with ERR_MATCHMAKE_INVALID_CRITERIA in its first
\* attempt and has created no room
C11_JoinRetriesSeatFailure ==
  \A c \in Calls :
    (call[c].op = "join" /\ call[c].pc = "done") =>
      /\ call[c].result = "SeatReservationError" => call[c].retries > 0
      /\ call[c].result = "ERR_MATCHMAKE_INVALID_CRITERIA" =>
           (call[c].retries = 0 /\ call[c].made = {})

\* the replies in flight that answer a request of call c
RepliesFor(c) == { m \in replies : m.rid[1] = "call" /\ m.rid[2] = c }

\* C12: a reply can reach a subscriber only while the call that issued its
\* request is still waiting for it (so a second copy and a late reply find no
\* subscriber), and a call that has settled keeps its outcome whatever is
\* delivered afterwards
C12_FirstReplyOnly ==
  /\ [](\A m \in replies :
         (m.rid[1] = "call" /\ m.rid \in replySubs) =>
           /\ call[m.rid[2]].pc = "awaitReply"
           /\ m.rid = CallRid(m.rid[2], call[m.rid[2]].room))
  /\ [][\A c \in Calls : call[c].pc = "done" => call'[c] = call[c]]_vars

\* one call was settled by a reply whose second copy is still in flight,
\* while the reply to another call is about to be delivered
C12_Witness ==
  \E c \in Calls, d \in Calls :
    /\ call[c].pc = "done" /\ call[c].path = "pubsub" /\ ~call[c].late
    /\ RepliesFor(c) # {}
    /\ call[d].pc = "awaitReply"
    /\ \E m \in RepliesFor(d) : m.rid \in replySubs

\* cleanupStaleRooms of process p has just found the listing of room r,
\* whose owner is dead
FoundStale(p, r) ==
  /\ alive[p] /\ cleanup[p].pc = "found" /\ r \in cleanup[p].rooms
  /\ r \in registry /\ ~alive[Owner(r)]

\* the listing of r and its set member are gone
Reaped(r) == r \notin registry /\ \A n \in Types : r \notin rset[n]

\* C13: when a process registers a handler for the type of a listing whose
\* owner has crashed, its stale cleanup eventually removes the listing from
\* the registry and the roomId from the type's presence set (unless the
\* registering process dies as well)
C13_StaleEventuallyRemoved ==
  \A p \in Procs, r \in RoomIds :
    FoundStale(p, r) ~> (Reaped(r) \/ ~alive[p])

\* the listing that a crashed process had saved has been removed by the
\* cleanup of the surviving process, which has finished
C13_Witness ==
  \E p \in Procs, r \in RoomIds, c \in Calls :
    /\ room[r].state = "crashed" /\ Owner(r) # p /\ alive[p]
    /\ call[c].room = r /\ call[c].pc \in {"saved", "localAwait", "done"}
    /\ Reaped(r) /\ cleanup[p].pc = "idle" /\ handlers[p] # {}

\* the listing of room r has been saved by the call that created it
Saved(r) ==
  \E c \in Calls : call[c].room = r /\ call[c].made = {r}
                    /\ call[c].pc \in {"saved", "localAwait", "done"}

\* C14: while every listing belongs to a live room, no run of stale cleanup
\* removes a listing or a set member: every saved listing is in the registry
\* and every unlocked room is a member of its type's set
C14_CleanRegistryKept ==
  \A r \in RoomIds :
    /\ Saved(r) => r \in registry
    /\ (Listening(r) /\ ~listing[r].locked) => r \in rset[listing[r].name]

\* C15: a matchmake socket serves one request: the matchmaker is invoked at
\* most once for it and at most one response is sent on it
C15_OneRequestPerSocket ==
  \A k \in Sockets : Cardinality(sockets[k].invoked) <= 1 /\ sockets[k].sent <= 1

\* the queryRoom calls of type n that have incremented the counter and have
\* not decremented it yet
InGate(n) == { c \in Calls : call[c].name = n /\ call[c].pc \in {"gate", "queried"} }

\* C16: the admission counter of a room type equals the number of its queries
\* in flight (so it is never negative, and 0 when there is none), also across
\* disposals and stale cleanup
C16_CounterCountsQueries ==
  \A n \in Types : counter[n] = Cardinality(InGate(n))

\* room r is nowhere in the shared state nor in a process's localRooms
Untraced(r) ==
  /\ r \notin registry /\ r \notin channels
  /\ \A n \in Types : r \notin rset[n]
  /\ \A p \in Procs : r \notin localRooms[p]

Kept(r) ==
  /\ r \in registry /\ r \in localRooms[Owner(r)]
  /\ r \in channels /\ subscribers[r] = 1

\* C18: a lock step takes the roomId out of its type's set and leaves the
\* registry, localRooms and the subscriptions as they were; a locked room keeps
\* its listing row, its handle and its single subscription, and so does every
\* room a remote call is on its way to; an unlock step puts the roomId back
\* in the set and changes no subscription; no channel ever has two subscribers
C18_LockChangesSetOnly ==
  /\ [](\A r \in RoomIds : subscribers[r] <= 1)
  /\ [](\A r \in RoomIds : (Created(r) /\ listing[r].locked) => Kept(r))
  /\ [](\A m \in requests : Kept(m.room))
  /\ [][\A r \in RoomIds :
         (~listing[r].locked /\ listing'[r].locked) =>
           /\ rset' = [rset EXCEPT ![listing[r].name] = @ \ {r}]
           /\ registry' = registry /\ localRooms' = localRooms
           /\ channels' = channels /\ subscribers' = subscribers]_vars
  /\ [][\A r \in RoomIds :
         (listing[r].locked /\ ~listing'[r].locked) =>
           /\ rset' = [rset EXCEPT ![listing[r].name] = @ \cup {r}]
           /\ registry' = registry
           /\ channels' = channels /\ subscribers' = subscribers]_vars

\* a room answered a remote call while it was locked, and has since been
\* unlocked: it is full, unlocked, back in the set and subscribed once
C18_Witness ==
  \E c \in Calls :
    /\ call[c].op = "joinById" /\ call[c].pc = "done" /\ call[c].result = "seat"
    /\ call[c].path = "pubsub" /\ call[c].locked
    /\ LET r == call[c].room
       IN /\ ~listing[r].locked /\ hasReachedMaxClients(r, room[r].seats)
          /\ r \in rset[listing[r].name] /\ Kept(r)

\* C19: two settled remoteRoomCalls of the same room, method and args, one on
\* the local path and one on the pub/sub path, have the same outcome
C19_PathsAgree ==
  \A c \in Calls, d \in Calls :
    ( /\ call[c].op = "remoteRoomCall" /\ call[c].pc = "done"
      /\ call[d].op = "remoteRoomCall" /\ call[d].pc = "done"
      /\ call[c].path = "local" /\ call[d].path = "pubsub"
      /\ call[c].room = call[d].room /\ call[c].method = call[d].method
      /\ call[c].arg = call[d].arg )
    => call[c].outcome = call[d].outcome

\* the owner of room r holds its handle and has subscribed "$<roomId>"
Served(r) == r \in localRooms[Owner(r)] /\ r \in channels /\ subscribers[r] = 1

\* C20: every listing in the registry, and every listing a queryRoom or a
\* joinById has found, is of a room whose owner has stored the handle and
\* subscribed the room channel; and the request of every remote call that
\* starts is published to a subscribed channel, where it awaits delivery
C20_ListedAfterSubscribed ==
  /\ [](\A r \in registry : Served(r))
  /\ [](\A c \in Calls : (call[c].pc \in {"queried", "found"} /\ call[c].room # NoRoom)
                            => Served(call[c].room))
  /\ [][\A c \in Calls :
         (call[c].pc # "awaitReply" /\ call'[c].pc = "awaitReply") =>
           /\ call'[c].room \in channels'
           /\ \E m \in requests' : m.rid = << "call", c, call'[c].room,
                                              call'[c].retries >>]_vars

\* a room still being created (listing saved, createRoom not yet returned)
\* has answered the seat reservation of a call made on the other process
C20_Witness ==
  \E c \in Calls, d \in Calls :
    /\ call[c].pc = "saved" /\ call[d].room = call[c].room
    /\ call[d].proc # call[c].proc /\ call[d].path = "pubsub"
    /\ call[d].pc = "done" /\ call[d].result = "seat"

\* C21: a connected client, on either path, never has more than pingCountMax
\* pings unanswered (the interval that finds pingCountMax of them terminates it
\* instead of pinging it again), and a client the heartbeat has terminated has
\* left pingCountMax pings unanswered
C21_UnresponsiveTerminated ==
  \A k \in Sockets :
    /\ Connected(k) => sockets[k].unanswered <= pingCountMax
    /\ sockets[k].state = "terminated" => sockets[k].unanswered >= pingCountMax

====
